---- MODULE Spec2Model ----
(***************************************************************************)
(* Background process manager of codex-rs/core/src/background_process.rs:  *)
(* the bounded per-process log (ProcessLog), the managed process handle    *)
(* with its two stream pumps and its exit monitor, and the registry        *)
(* (BackgroundProcessManager) with start / list / logs / kill.             *)
(*                                                                         *)
(* Byte strings and texts are kept run-length encoded (a sequence of runs  *)
(* "n times the byte b"), so that chunks of the size of the real cap       *)
(* (512 KiB) are ordinary values.                                          *)
(***************************************************************************)
EXTENDS Integers, Sequences, FiniteSets, TLC

\* ------------------------------------------------------------------ bounds
\* Number of ProcessLog.append calls explored by the log specification.
MaxAppends == 4
\* Number of start calls made on the registry.
MaxStarts == 2
\* Number of tasks calling the registry concurrently.
MaxCallers == 2
\* SystemTime::now() reads one of the instants 0..MaxTime.
MaxTime == 1
\* The timestamps converted lie up to MaxSecs seconds after the epoch.
MaxSecs == 42

\* --------------------------------------------------------------- constants
\* const LOG_CAP_BYTES: usize = 512 * 1024
LOG_CAP_BYTES == 512 * 1024
\* vec![0u8; 4096]: the pump's read buffer
READ_BUF_BYTES == 4096
\* U+FFFD REPLACEMENT CHARACTER, what from_utf8_lossy puts for an invalid byte
REPLACEMENT_CHARACTER == 65533

\* Option<T>
None == << >>
Some(x) == << x >>

\* enum LogStream { Stdout, Stderr }
LogStream == {"Stdout", "Stderr"}

\* LogStream::as_str
as_str(stream) == IF stream = "Stdout" THEN "stdout" ELSE "stderr"

\* ------------------------------------------------------- bytes and strings
\* n copies of the byte b
Run(b, n) == [b |-> b, n |-> n]

\* the byte string of the code units given one by one
Bytes(seq) == [i \in DOMAIN seq |-> Run(seq[i], 1)]

RECURSIVE RawLen(_)
\* <[u8]>::len
RawLen(bytes) ==
  IF bytes = << >> THEN 0 ELSE Head(bytes).n + RawLen(Tail(bytes))

\* char::len_utf8
len_utf8(c) ==
  IF c < 128 THEN 1 ELSE IF c < 2048 THEN 2 ELSE IF c < 65536 THEN 3 ELSE 4

\* String::from_utf8_lossy on byte strings made of ASCII bytes (< 0x80) and of
\* bytes that are invalid wherever they stand (0xFF): an ASCII byte is its own
\* character, every invalid byte becomes one U+FFFD.
from_utf8_lossy(chunk) ==
  [i \in DOMAIN chunk |->
     [c |-> IF chunk[i].b < 128 THEN chunk[i].b ELSE REPLACEMENT_CHARACTER,
      n |-> chunk[i].n]]

RECURSIVE TextLen(_)
\* String::len: the length of the text in bytes of its UTF-8 encoding
TextLen(text) ==
  IF text = << >> THEN 0
  ELSE Head(text).n * len_utf8(Head(text).c) + TextLen(Tail(text))

\* usize::saturating_sub
saturating_sub(a, b) == IF a > b THEN a - b ELSE 0

\* usize::saturating_add; the sums of the model stay far below usize::MAX
saturating_add(a, b) == a + b

\* -------------------------------------------------------------- ProcessLog
\* ProcessLog::default
ProcessLogDefault == [entries |-> << >>, total_bytes |-> 0]

\* the eviction written with an if in place of the while: one entry at most
EvictOnce(log) ==
  IF log.total_bytes > LOG_CAP_BYTES /\ log.entries # << >>
  THEN [entries |-> Tail(log.entries),
        total_bytes |-> saturating_sub(log.total_bytes,
                                       TextLen(Head(log.entries).text))]
  ELSE log

RECURSIVE EvictWhileOverCap(_)
\* the while loop of ProcessLog::append
EvictWhileOverCap(log) ==
  IF log.total_bytes > LOG_CAP_BYTES
  THEN IF log.entries # << >>
       THEN EvictWhileOverCap(
              [entries |-> Tail(log.entries),
               total_bytes |-> saturating_sub(log.total_bytes,
                                              TextLen(Head(log.entries).text))])
       ELSE log
  ELSE log

\* an append that puts the new entry in front
appendFront(log, stream, chunk) ==
  IF chunk = << >> THEN log
  ELSE LET text == from_utf8_lossy(chunk)
       IN EvictWhileOverCap(
            [entries |-> << [stream |-> stream, text |-> text] >> \o log.entries,
             total_bytes |-> saturating_add(log.total_bytes, TextLen(text))])

\* ProcessLog::append
append(log, stream, chunk) ==
  IF chunk = << >> THEN log
  ELSE LET text == from_utf8_lossy(chunk)
       IN EvictWhileOverCap(
            [entries |-> Append(log.entries, [stream |-> stream, text |-> text]),
             total_bytes |-> saturating_add(log.total_bytes, TextLen(text))])

\* a snapshot that walks the entries from the back
snapshotNewestFirst(log) ==
  [i \in DOMAIN log.entries |-> log.entries[Len(log.entries) + 1 - i]]

\* ProcessLog::snapshot: the clones of the entries, front to back
snapshot(log) ==
  [i \in DOMAIN log.entries |->
     [stream |-> log.entries[i].stream, text |-> log.entries[i].text]]

RECURSIVE SumText(_)
\* the sum of the text byte lengths of a sequence of entries
SumText(entries) ==
  IF entries = << >> THEN 0
  ELSE IF Len(entries) = 1 THEN TextLen(entries[1].text)
  ELSE LET half == Len(entries) \div 2
       IN SumText(SubSeq(entries, 1, half))
          + SumText(SubSeq(entries, half + 1, Len(entries)))

RECURSIVE Take(_, _)
\* &buf[..n]: the first n bytes
Take(n, bytes) ==
  IF n = 0 \/ bytes = << >> THEN << >>
  ELSE IF Head(bytes).n <= n
       THEN << Head(bytes) >> \o Take(n - Head(bytes).n, Tail(bytes))
       ELSE << Run(Head(bytes).b, n) >>

RECURSIVE Drop(_, _)
\* what is left of a byte string after its first n bytes
Drop(n, bytes) ==
  IF n = 0 \/ bytes = << >> THEN bytes
  ELSE IF Head(bytes).n <= n
       THEN Drop(n - Head(bytes).n, Tail(bytes))
       ELSE << Run(Head(bytes).b, Head(bytes).n - n) >> \o Tail(bytes)

\* the byte string a followed by the byte string b
Cat(a, b) ==
  IF a = << >> THEN b
  ELSE IF b = << >> THEN a
  ELSE IF a[Len(a)].b = Head(b).b
       THEN SubSeq(a, 1, Len(a) - 1)
              \o << Run(Head(b).b, a[Len(a)].n + Head(b).n) >> \o Tail(b)
       ELSE a \o b

Min(a, b) == IF a < b THEN a ELSE b

\* ------------------------------------------------- BackgroundProcessState
\* BackgroundProcessState::Running
Running == [tag |-> "Running"]

\* BackgroundProcessState::Exited { exit_code, signal, finished_at }
Exited(exit_code, signal, finished_at) ==
  [tag |-> "Exited", exit_code |-> exit_code, signal |-> signal,
   finished_at |-> finished_at]

\* BackgroundProcessState::Failed { message, finished_at }
Failed(message, finished_at) ==
  [tag |-> "Failed", message |-> message, finished_at |-> finished_at]

IsTerminal(state) == state.tag \in {"Exited", "Failed"}

\* ----------------------------------------------------------------- state
VARIABLES
  next_id,    \* BackgroundProcessManager.next_id (AtomicU64)
  processes,  \* BackgroundProcessManager.processes: id |-> handle (index in procs)
  map_lock,   \* who holds the Mutex around processes
  procs,      \* the ManagedBackgroundProcess handles created so far, each with
              \* its child, its pipes, its locks and its three tasks
  callers,    \* the tasks calling start / list / logs / kill: each one's call
  allocated,  \* history: the ids formatted by start, in the order of fetch_add
  dropped,    \* the manager and, with its map, every handle have been dropped
  env,        \* the run's inputs: how many start calls and callers there are,
              \* the operations the callers use, the programs the executor is
              \* asked to run, and whether the system calls behind read,
              \* try_wait and start_kill can fail
  plog,       \* a ProcessLog on its own (the log specification)
  appended,   \* history: the non-empty appends made to plog, [stream, chunk]
  snap,       \* the last result of logs() on plog, and how many non-empty
              \* appends had been made when it was taken
  shown       \* the last call of a conversion: function, argument, result

regVars == << next_id, processes, map_lock, procs, callers, allocated, dropped, env >>
logVars == << plog, appended, snap >>
convVars == << shown >>
vars == << next_id, processes, map_lock, procs, callers, allocated, dropped, env, plog,
          appended, snap, shown >>

Callers == 1 .. MaxCallers
Times == 0 .. MaxTime

\* who holds a lock
Free == << >>
Monitor == << "monitor" >>
Pump(stream) == << "pump", stream >>
Caller(c) == << "caller", c >>

\* Result<T, E>
Ok(x) == << "Ok", x >>
Err(e) == << "Err", e >>

DigitChar(d) ==
  CASE d = 0 -> "0" [] d = 1 -> "1" [] d = 2 -> "2" [] d = 3 -> "3" [] d = 4 -> "4"
    [] d = 5 -> "5" [] d = 6 -> "6" [] d = 7 -> "7" [] d = 8 -> "8" [] d = 9 -> "9"

RECURSIVE Decimal(_)
\* {id_num}: the decimal digits of a u64
Decimal(n) ==
  IF n < 10 THEN DigitChar(n) ELSE Decimal(n \div 10) \o DigitChar(n % 10)

\* format!("bg-{id_num}")
ProcessId(id_num) == "bg-" \o Decimal(id_num)

\* format!("unknown background process: {process_id}")
UnknownProcess(process_id) == "unknown background process: " \o process_id

\* The children the executor can spawn: what each writes, write by write, and
\* the code it exits with by itself (None: it runs until it is killed).
EchoHello ==
  [command |-> "echo hello", exit |-> Some(0),
   script |-> << [stream |-> "Stdout",
                  bytes |-> Bytes(<<104, 101, 108, 108, 111, 10>>)] >>]

Sleep == [command |-> "sleep 1000", exit |-> None, script |-> << >>]

Noisy ==
  [command |-> "noisy", exit |-> Some(3),
   script |-> << [stream |-> "Stdout",
                  bytes |-> << Run(97, READ_BUF_BYTES), Run(98, 1) >>],
                 [stream |-> "Stderr", bytes |-> Bytes(<<255>>)] >>]

Long ==
  [command |-> "long", exit |-> Some(1),
   script |-> << [stream |-> "Stdout",
                  bytes |-> << Run(97, READ_BUF_BYTES), Run(98, 1) >>] >>]

Programs == { EchoHello, Sleep, Noisy, Long }

\* A child that writes two reads more than the cap holds to stdout, the first
\* and the last read's worth told apart from the rest, and exits with 0.
Flood ==
  [command |-> "flood", exit |-> Some(0),
   script |-> << [stream |-> "Stdout",
                  bytes |-> << Run(97, READ_BUF_BYTES),
                               Run(98, LOG_CAP_BYTES),
                               Run(99, READ_BUF_BYTES) >>] >>]

Ops == {"start", "list", "logs", "kill"}

\* ... and the owner of the manager can drop it
OpsAndDrop == Ops \cup {"drop"}

\* The runs explored: one process in full with one caller; one process with
\* concurrent callers; several processes with one caller; several processes
\* and concurrent callers that start, list and read logs. In the last two the
\* children sleep and no system call fails.
OneProcess ==
  [starts |-> 1, callers |-> 1, ops |-> OpsAndDrop, programs |-> Programs,
   faults |-> TRUE]

OneProcessCallers ==
  [starts |-> 1, callers |-> MaxCallers, ops |-> Ops,
   programs |-> {Sleep, EchoHello}, faults |-> TRUE]

Processes ==
  [starts |-> MaxStarts, callers |-> 1, ops |-> Ops, programs |-> {Sleep},
   faults |-> FALSE]

ProcessesCallers ==
  [starts |-> MaxStarts, callers |-> MaxCallers, ops |-> Ops \ {"kill"},
   programs |-> {Sleep}, faults |-> FALSE]

\* One process that fills its log beyond the cap, started and left alone.
OneProcessFlood ==
  [starts |-> 1, callers |-> 1, ops |-> {"start"}, programs |-> {Flood},
   faults |-> FALSE]

Scenarios ==
  { OneProcess, OneProcessCallers, Processes, ProcessesCallers, OneProcessFlood }

\* The ids callers pass to logs and kill.
IdArgs == { ProcessId(k) : k \in 1 .. MaxStarts } \cup { "nonexistent-id" }

\* a caller that is in no call
NoCall ==
  [op |-> "none", pc |-> "idle", arg |-> "", h |-> 0,
   todo |-> << >>, acc |-> << >>, known |-> {}, sk |-> "", res |-> << >>]

\* what start builds between the spawn and the insert: the child with its
\* pipes, Arc<Mutex<Child>>, Arc<RwLock<state>>, Arc<Mutex<ProcessLog>>, and the
\* three spawned tasks, each at its first await
NewHandle(process_id, prog) ==
  [id |-> process_id,
   command_for_display |-> prog.command,
   child |-> [alive |-> TRUE, status |-> None, kill_sent |-> FALSE,
              reaped |-> FALSE, script |-> prog.script, exit |-> prog.exit],
   pipe |-> [s \in LogStream |-> [buf |-> << >>, open |-> TRUE]],
   child_lock |-> Free,
   state |-> Running,
   state_lock |-> [writer |-> FALSE, readers |-> {}],
   log |-> ProcessLogDefault,
   log_lock |-> Free,
   pump |-> [s \in LogStream |-> [pc |-> "read", chunk |-> << >>]],
   monitor |-> [pc |-> "lock", pending |-> None]]

Handles == DOMAIN procs

\* BackgroundProcessManager::new, in the run of a scenario
New(scenario) ==
  /\ next_id = 0
  /\ processes = << >>
  /\ map_lock = Free
  /\ procs = << >>
  /\ callers = [c \in Callers |-> NoCall]
  /\ allocated = << >>
  /\ dropped = FALSE
  /\ env = scenario
  /\ plog = ProcessLogDefault
  /\ appended = << >>
  /\ snap = None
  /\ shown = None

Init == \E scenario \in Scenarios : New(scenario)

\* -------------------------------------------------- the child (the OS)
\* the child writes the next piece of its output into a pipe
ChildWrite(h) ==
  /\ h \in Handles
  /\ procs[h].child.alive
  /\ procs[h].child.script # << >>
  /\ LET w == Head(procs[h].child.script)
     IN procs' = [procs EXCEPT
                    ![h].pipe[w.stream].buf = Cat(@, w.bytes),
                    ![h].child.script = Tail(@)]
  /\ UNCHANGED << next_id, processes, map_lock, callers, allocated, env, dropped, logVars, convVars >>

\* the child exits by itself, after its last write: its pipes close
ChildExit(h) ==
  /\ h \in Handles
  /\ procs[h].child.alive
  /\ procs[h].child.script = << >>
  /\ procs[h].child.exit # None
  /\ procs' = [procs EXCEPT
                 ![h].child.alive = FALSE,
                 ![h].child.status = Some([code |-> procs[h].child.exit, signal |-> None]),
                 ![h].pipe = [s \in LogStream |-> [@[s] EXCEPT !.open = FALSE]]]
  /\ UNCHANGED << next_id, processes, map_lock, callers, allocated, env, dropped, logVars, convVars >>

\* the OS ends a child that was sent SIGKILL: no exit code, signal 9
ChildDie(h) ==
  /\ h \in Handles
  /\ procs[h].child.alive
  /\ procs[h].child.kill_sent
  /\ procs' = [procs EXCEPT
                 ![h].child.alive = FALSE,
                 ![h].child.script = << >>,
                 ![h].child.status = Some([code |-> None, signal |-> Some(9)]),
                 ![h].pipe = [s \in LogStream |-> [@[s] EXCEPT !.open = FALSE]]]
  /\ UNCHANGED << next_id, processes, map_lock, callers, allocated, env, dropped, logVars, convVars >>

\* ---------------------------------------------------------- spawn_log_task
\* a read into a buffer as large as what the pipe holds
PumpReadWholePipe(h, stream) ==
  /\ h \in Handles
  /\ procs[h].pump[stream].pc = "read"
  /\ LET buf == procs[h].pipe[stream].buf
     IN \/ /\ buf # << >>
           /\ procs' = [procs EXCEPT
                          ![h].pipe[stream].buf = << >>,
                          ![h].pump[stream] = [pc |-> "lock", chunk |-> buf]]
        \/ /\ buf = << >>
           /\ ~procs[h].pipe[stream].open
           /\ procs' = [procs EXCEPT ![h].pump[stream].pc = "done"]
        \/ /\ env.faults
           /\ procs' = [procs EXCEPT ![h].pump[stream].pc = "done"]
  /\ UNCHANGED << next_id, processes, map_lock, callers, allocated, env, dropped, logVars, convVars >>

\* a pump that records its read error in the lifecycle state
PumpReadMarksFailed(h, stream) ==
  /\ h \in Handles
  /\ procs[h].pump[stream].pc = "read"
  /\ LET buf == procs[h].pipe[stream].buf
         n == Min(READ_BUF_BYTES, RawLen(buf))
     IN \/ /\ buf # << >>
           /\ procs' = [procs EXCEPT
                          ![h].pipe[stream].buf = Drop(n, buf),
                          ![h].pump[stream] = [pc |-> "lock", chunk |-> Take(n, buf)]]
        \/ /\ buf = << >>
           /\ ~procs[h].pipe[stream].open
           /\ procs' = [procs EXCEPT ![h].pump[stream].pc = "done"]
        \/ /\ env.faults
           /\ \E now \in Times :
                procs' = [procs EXCEPT
                            ![h].pump[stream].pc = "done",
                            ![h].state = IF @ = Running THEN Failed("read failed", now)
                                         ELSE @]
  /\ UNCHANGED << next_id, processes, map_lock, callers, allocated, env, dropped, logVars, convVars >>

\* a read that empties the pipe and keeps only what fits the buffer
PumpReadLosesRest(h, stream) ==
  /\ h \in Handles
  /\ procs[h].pump[stream].pc = "read"
  /\ LET buf == procs[h].pipe[stream].buf
         n == Min(READ_BUF_BYTES, RawLen(buf))
     IN \/ /\ buf # << >>
           /\ procs' = [procs EXCEPT
                          ![h].pipe[stream].buf = << >>,
                          ![h].pump[stream] = [pc |-> "lock", chunk |-> Take(n, buf)]]
        \/ /\ buf = << >>
           /\ ~procs[h].pipe[stream].open
           /\ procs' = [procs EXCEPT ![h].pump[stream].pc = "done"]
        \/ /\ env.faults
           /\ procs' = [procs EXCEPT ![h].pump[stream].pc = "done"]
  /\ UNCHANGED << next_id, processes, map_lock, callers, allocated, env, dropped, logVars, convVars >>

\* reader.read(&mut buf).await: Ok(n) with the bytes at hand, at most the
\* buffer's 4096; Ok(0) at the end of the stream; or an error of the read
PumpRead(h, stream) ==
  /\ h \in Handles
  /\ procs[h].pump[stream].pc = "read"
  /\ LET buf == procs[h].pipe[stream].buf
         n == Min(READ_BUF_BYTES, RawLen(buf))
     IN \/ /\ buf # << >>
           /\ procs' = [procs EXCEPT
                          ![h].pipe[stream].buf = Drop(n, buf),
                          ![h].pump[stream] = [pc |-> "lock", chunk |-> Take(n, buf)]]
        \/ /\ buf = << >>
           /\ ~procs[h].pipe[stream].open
           /\ procs' = [procs EXCEPT ![h].pump[stream].pc = "done"]
        \/ /\ env.faults
           /\ procs' = [procs EXCEPT ![h].pump[stream].pc = "done"]
  /\ UNCHANGED << next_id, processes, map_lock, callers, allocated, env, dropped, logVars, convVars >>

\* let mut log = log.lock().await
PumpLock(h, stream) ==
  /\ h \in Handles
  /\ procs[h].pump[stream].pc = "lock"
  /\ procs[h].log_lock = Free
  /\ procs' = [procs EXCEPT ![h].log_lock = Pump(stream),
                            ![h].pump[stream].pc = "append"]
  /\ UNCHANGED << next_id, processes, map_lock, callers, allocated, env, dropped, logVars, convVars >>

\* log.append(stream, &buf[..n]); the guard is dropped at the end of the arm
PumpAppend(h, stream) ==
  /\ h \in Handles
  /\ procs[h].pump[stream].pc = "append"
  /\ procs' = [procs EXCEPT
                 ![h].log = append(@, stream, procs[h].pump[stream].chunk),
                 ![h].log_lock = Free,
                 ![h].pump[stream] = [pc |-> "read", chunk |-> << >>]]
  /\ UNCHANGED << next_id, processes, map_lock, callers, allocated, env, dropped, logVars, convVars >>

\* ------------------------------------------------------ spawn_monitor_task
\* let mut guard = child.lock().await
MonitorLock(h) ==
  /\ h \in Handles
  /\ procs[h].monitor.pc = "lock"
  /\ procs[h].child_lock = Free
  /\ procs' = [procs EXCEPT ![h].child_lock = Monitor, ![h].monitor.pc = "poll"]
  /\ UNCHANGED << next_id, processes, map_lock, callers, allocated, env, dropped, logVars, convVars >>

\* a monitor that reports the exit only once both pumps have ended
MonitorPollAfterPumps(h) ==
  /\ h \in Handles
  /\ procs[h].monitor.pc = "poll"
  /\ \/ /\ ~procs[h].child.alive
        /\ \A stream \in LogStream : procs[h].pump[stream].pc = "done"
        /\ \E finished_at \in Times :
             LET status == procs[h].child.status[1]
             IN procs' = [procs EXCEPT
                  ![h].child.reaped = TRUE,
                  ![h].child_lock = Free,
                  ![h].monitor = [pc |-> "commit",
                                  pending |-> Some(Exited(status.code, status.signal,
                                                          finished_at))]]
     \/ /\ procs[h].child.alive
        /\ procs' = [procs EXCEPT ![h].child_lock = Free, ![h].monitor.pc = "sleep"]
     \/ /\ env.faults
        /\ procs' = [procs EXCEPT
                    ![h].child_lock = Free,
                    ![h].monitor = [pc |-> "commit",
                                    pending |-> Some([tag |-> "Failed",
                                                      message |-> "wait failed"])]]
  /\ UNCHANGED << next_id, processes, map_lock, callers, allocated, env, dropped, logVars, convVars >>

\* a poll whose Ok(None) arm keeps the guard over the sleep
MonitorPollKeepsGuard(h) ==
  /\ h \in Handles
  /\ procs[h].monitor.pc = "poll"
  /\ \/ /\ ~procs[h].child.alive
        /\ \E finished_at \in Times :
             LET status == procs[h].child.status[1]
             IN procs' = [procs EXCEPT
                  ![h].child.reaped = TRUE,
                  ![h].child_lock = Free,
                  ![h].monitor = [pc |-> "commit",
                                  pending |-> Some(Exited(status.code, status.signal,
                                                          finished_at))]]
     \/ /\ procs[h].child.alive
        /\ procs' = [procs EXCEPT ![h].monitor.pc = "sleep"]
     \/ /\ env.faults
        /\ procs' = [procs EXCEPT
                    ![h].child_lock = Free,
                    ![h].monitor = [pc |-> "commit",
                                    pending |-> Some([tag |-> "Failed",
                                                      message |-> "wait failed"])]]
  /\ UNCHANGED << next_id, processes, map_lock, callers, allocated, env, dropped, logVars, convVars >>

\* match guard.try_wait(), each arm up to its drop(guard)
MonitorPoll(h) ==
  /\ h \in Handles
  /\ procs[h].monitor.pc = "poll"
  /\ \/ /\ ~procs[h].child.alive
        /\ \E finished_at \in Times :
             LET status == procs[h].child.status[1]
             IN procs' = [procs EXCEPT
                  ![h].child.reaped = TRUE,
                  ![h].child_lock = Free,
                  ![h].monitor = [pc |-> "commit",
                                  pending |-> Some(Exited(status.code, status.signal,
                                                          finished_at))]]
     \/ /\ procs[h].child.alive
        /\ procs' = [procs EXCEPT ![h].child_lock = Free, ![h].monitor.pc = "sleep"]
     \/ /\ env.faults
        /\ procs' = [procs EXCEPT
                    ![h].child_lock = Free,
                    ![h].monitor = [pc |-> "commit",
                                    pending |-> Some([tag |-> "Failed",
                                                      message |-> "wait failed"])]]
  /\ UNCHANGED << next_id, processes, map_lock, callers, allocated, env, dropped, logVars, convVars >>

\* let mut state_guard = state.write().await
MonitorWriteLock(h) ==
  /\ h \in Handles
  /\ procs[h].monitor.pc = "commit"
  /\ ~procs[h].state_lock.writer
  /\ procs[h].state_lock.readers = {}
  /\ procs' = [procs EXCEPT ![h].state_lock.writer = TRUE, ![h].monitor.pc = "write"]
  /\ UNCHANGED << next_id, processes, map_lock, callers, allocated, env, dropped, logVars, convVars >>

\* the write without the break that ends the task: the loop goes on polling
MonitorWriteNoBreak(h) ==
  /\ h \in Handles
  /\ procs[h].monitor.pc = "write"
  /\ LET pending == procs[h].monitor.pending[1]
     IN \E now \in Times :
          /\ pending.tag = "Exited" => now = pending.finished_at
          /\ procs' = [procs EXCEPT
                         ![h].state = IF pending.tag = "Exited" THEN pending
                                      ELSE Failed(pending.message, now),
                         ![h].state_lock.writer = FALSE,
                         ![h].monitor = [pc |-> "sleep", pending |-> None]]
  /\ UNCHANGED << next_id, processes, map_lock, callers, allocated, env, dropped, logVars, convVars >>

\* *state_guard = Exited { .. } or Failed { .., finished_at: SystemTime::now() };
\* break: the task ends and the guard is dropped
MonitorWrite(h) ==
  /\ h \in Handles
  /\ procs[h].monitor.pc = "write"
  /\ LET pending == procs[h].monitor.pending[1]
     IN \E now \in Times :
          /\ pending.tag = "Exited" => now = pending.finished_at
          /\ procs' = [procs EXCEPT
                         ![h].state = IF pending.tag = "Exited" THEN pending
                                      ELSE Failed(pending.message, now),
                         ![h].state_lock.writer = FALSE,
                         ![h].monitor = [pc |-> "done", pending |-> None]]
  /\ UNCHANGED << next_id, processes, map_lock, callers, allocated, env, dropped, logVars, convVars >>

\* tokio::time::sleep(WAIT_POLL_INTERVAL).await is over
MonitorWake(h) ==
  /\ h \in Handles
  /\ procs[h].monitor.pc = "sleep"
  /\ procs' = [procs EXCEPT ![h].monitor.pc = "lock"]
  /\ UNCHANGED << next_id, processes, map_lock, callers, allocated, env, dropped, logVars, convVars >>

\* ------------------------------------------------ BackgroundProcessManager
\* a caller that can make its next call
Ready(c, op) ==
  /\ c <= env.callers
  /\ op \in env.ops
  /\ ~dropped
  /\ callers[c].pc \in {"idle", "done"}

\* ExecError, what spawn_background fails with
ExecErrors ==
  { [kind |-> "Function", inner |-> "rejected by user"],
    [kind |-> "Codex", other |-> "Sandbox(Denied)"] }

\* error_to_function_call
error_to_function_call(err) ==
  IF err.kind = "Function" THEN err.inner
  ELSE "execution error: " \o err.other

\* start, up to the await of spawn_background:
\* let id_num = self.next_id.fetch_add(1, SeqCst) + 1; format!("bg-{id_num}")
StartAlloc(c) ==
  /\ Ready(c, "start")
  /\ next_id < env.starts
  /\ next_id' = next_id + 1
  /\ callers' = [callers EXCEPT ![c] =
                   [NoCall EXCEPT !.op = "start", !.pc = "spawn",
                                  !.arg = ProcessId(next_id + 1)]]
  /\ allocated' = Append(allocated, ProcessId(next_id + 1))
  /\ UNCHANGED << processes, map_lock, procs, env, dropped, logVars, convVars >>

\* start giving its counter value back when the spawn or the capture fails
StartSpawnGivesIdBack(c) ==
  /\ callers[c].pc = "spawn"
  /\ \/ \E err \in ExecErrors :
          /\ callers' = [callers EXCEPT ![c].pc = "done",
                                        ![c].res = Err(error_to_function_call(err))]
          /\ next_id' = next_id - 1
          /\ UNCHANGED procs
     \/ \E stdout \in BOOLEAN, stderr \in BOOLEAN :
          /\ ~(stdout /\ stderr)
          /\ callers' = [callers EXCEPT
                           ![c].pc = "done",
                           ![c].res = IF ~stdout THEN Err("failed to capture stdout")
                                      ELSE Err("failed to capture stderr")]
          /\ next_id' = next_id - 1
          /\ UNCHANGED procs
     \/ \E prog \in env.programs :
          /\ procs' = Append(procs, NewHandle(callers[c].arg, prog))
          /\ callers' = [callers EXCEPT ![c].pc = "insert", ![c].h = Len(procs) + 1]
          /\ UNCHANGED next_id
  /\ UNCHANGED << processes, map_lock, allocated, env, dropped, logVars, convVars >>

\* start building the handle and spawning the tasks before it finds that
\* stderr was not captured
StartSpawnTasksFirst(c) ==
  /\ callers[c].pc = "spawn"
  /\ \/ \E err \in ExecErrors :
          /\ callers' = [callers EXCEPT ![c].pc = "done",
                                        ![c].res = Err(error_to_function_call(err))]
          /\ UNCHANGED procs
     \/ /\ callers' = [callers EXCEPT ![c].pc = "done",
                                       ![c].res = Err("failed to capture stdout")]
        /\ UNCHANGED procs
     \/ \E prog \in env.programs :
          /\ procs' = Append(procs, NewHandle(callers[c].arg, prog))
          /\ \/ callers' = [callers EXCEPT ![c].pc = "insert", ![c].h = Len(procs) + 1]
             \/ callers' = [callers EXCEPT ![c].pc = "done",
                                           ![c].res = Err("failed to capture stderr")]
  /\ UNCHANGED << next_id, processes, map_lock, allocated, env, dropped, logVars, convVars >>

\* start, from the result of spawn_background to the await of the map lock: the
\* spawn error, the two capture errors, or the child, its cells and its tasks
StartSpawn(c) ==
  /\ callers[c].pc = "spawn"
  /\ \/ \E err \in ExecErrors :
          /\ callers' = [callers EXCEPT ![c].pc = "done",
                                        ![c].res = Err(error_to_function_call(err))]
          /\ UNCHANGED procs
     \/ \E stdout \in BOOLEAN, stderr \in BOOLEAN :
          /\ ~(stdout /\ stderr)
          /\ callers' = [callers EXCEPT
                           ![c].pc = "done",
                           ![c].res = IF ~stdout THEN Err("failed to capture stdout")
                                      ELSE Err("failed to capture stderr")]
          /\ UNCHANGED procs
     \/ \E prog \in env.programs :
          /\ procs' = Append(procs, NewHandle(callers[c].arg, prog))
          /\ callers' = [callers EXCEPT ![c].pc = "insert", ![c].h = Len(procs) + 1]
  /\ UNCHANGED << next_id, processes, map_lock, allocated, env, dropped, logVars, convVars >>

\* let mut processes = self.processes.lock().await
StartLock(c) ==
  /\ callers[c].pc = "insert"
  /\ map_lock = Free
  /\ map_lock' = Caller(c)
  /\ callers' = [callers EXCEPT ![c].pc = "inserting"]
  /\ UNCHANGED << next_id, processes, procs, allocated, env, dropped, logVars, convVars >>

\* an insert that forgets the other entries
insertAlone(map, key, value) == [k \in {key} |-> value]

\* HashMap::insert
insert(map, key, value) ==
  [k \in DOMAIN map \cup {key} |-> IF k = key THEN value ELSE map[k]]

\* processes.insert(process_id.clone(), managed); Ok(StartProcessResponse { process_id })
StartInsert(c) ==
  /\ callers[c].pc = "inserting"
  /\ processes' = insert(processes, callers[c].arg, callers[c].h)
  /\ map_lock' = Free
  /\ callers' = [callers EXCEPT ![c].pc = "done", ![c].h = 0,
                                ![c].res = Ok(callers[c].arg)]
  /\ UNCHANGED << next_id, procs, allocated, env, dropped, logVars, convVars >>

\* the orders in which a HashMap can hand out the members of S
Orders(S) ==
  { f \in [1 .. Cardinality(S) -> S] : \A i, j \in DOMAIN f : f[i] = f[j] => i = j }

\* ManagedBackgroundProcess::summary (cwd, started_at and sandbox_type are
\* fixed at start and left out)
summary(process) ==
  [id |-> process.id, command |-> process.command_for_display, state |-> process.state]

\* list: let guard = self.processes.lock().await
ListLock(c) ==
  /\ Ready(c, "list")
  /\ map_lock = Free
  /\ map_lock' = Caller(c)
  /\ callers' = [callers EXCEPT ![c] =
                   [NoCall EXCEPT !.op = "list", !.pc = "values",
                                  !.known = DOMAIN processes]]
  /\ UNCHANGED << next_id, processes, procs, allocated, env, dropped, logVars, convVars >>

\* guard.values().cloned().collect(), the guard dropped at the end of the block;
\* with no process the loop is empty and list returns
ListValues(c) ==
  /\ callers[c].op = "list"
  /\ callers[c].pc = "values"
  /\ map_lock' = Free
  /\ \E order \in Orders({ processes[id] : id \in DOMAIN processes }) :
       callers' = [callers EXCEPT
                     ![c].todo = order,
                     ![c].pc = IF order = << >> THEN "done" ELSE "state_read",
                     ![c].res = IF order = << >> THEN Ok(<< >>) ELSE << >>]
  /\ UNCHANGED << next_id, processes, procs, allocated, env, dropped, logVars, convVars >>

\* process.summary(): self.state.read().await
ListReadLock(c) ==
  /\ callers[c].op = "list"
  /\ callers[c].pc = "state_read"
  /\ LET h == Head(callers[c].todo)
     IN /\ ~procs[h].state_lock.writer
        /\ procs' = [procs EXCEPT ![h].state_lock.readers = @ \cup {c}]
  /\ callers' = [callers EXCEPT ![c].pc = "summary"]
  /\ UNCHANGED << next_id, processes, map_lock, allocated, env, dropped, logVars, convVars >>

\* .clone() of the state, the read guard dropped; summaries.push(..); after the
\* last process list returns the summaries
ListSummary(c) ==
  /\ callers[c].op = "list"
  /\ callers[c].pc = "summary"
  /\ LET h == Head(callers[c].todo)
         summaries == Append(callers[c].acc, summary(procs[h]))
         last == Tail(callers[c].todo) = << >>
     IN /\ procs' = [procs EXCEPT ![h].state_lock.readers = @ \ {c}]
        /\ callers' = [callers EXCEPT
                         ![c].todo = Tail(@),
                         ![c].acc = IF last THEN << >> ELSE summaries,
                         ![c].pc = IF last THEN "done" ELSE "state_read",
                         ![c].res = IF last THEN Ok(summaries) ELSE << >>]
  /\ UNCHANGED << next_id, processes, map_lock, allocated, env, dropped, logVars, convVars >>

\* logs / kill: let processes = self.processes.lock().await
LookupLock(c, op, process_id) ==
  /\ Ready(c, op)
  /\ map_lock = Free
  /\ map_lock' = Caller(c)
  /\ callers' = [callers EXCEPT ![c] =
                   [NoCall EXCEPT !.op = op, !.pc = "get", !.arg = process_id]]
  /\ UNCHANGED << next_id, processes, procs, allocated, env, dropped, logVars, convVars >>

\* a lookup whose guard lives on to the end of the call when the id is found
LookupKeepsGuard(c, next) ==
  /\ callers[c].pc = "get"
  /\ map_lock' = IF callers[c].arg \in DOMAIN processes THEN map_lock ELSE Free
  /\ callers' = IF callers[c].arg \in DOMAIN processes
                THEN [callers EXCEPT ![c].h = processes[callers[c].arg],
                                     ![c].pc = next]
                ELSE [callers EXCEPT ![c].pc = "done",
                                     ![c].res = Err(UnknownProcess(callers[c].arg))]
  /\ UNCHANGED << next_id, processes, procs, allocated, env, dropped, logVars, convVars >>

\* a lookup that answers an unknown id with an empty success
LookupOrDefault(c, next) ==
  /\ callers[c].pc = "get"
  /\ map_lock' = Free
  /\ callers' = IF callers[c].arg \in DOMAIN processes
                THEN [callers EXCEPT ![c].h = processes[callers[c].arg],
                                     ![c].pc = next]
                ELSE [callers EXCEPT ![c].pc = "done", ![c].res = Ok(<< >>)]
  /\ UNCHANGED << next_id, processes, procs, allocated, env, dropped, logVars, convVars >>

\* processes.get(process_id).cloned(), the guard dropped; then
\* process.ok_or_else(|| RespondToModel("unknown background process: ..."))?
Lookup(c, next) ==
  /\ callers[c].pc = "get"
  /\ map_lock' = Free
  /\ callers' = IF callers[c].arg \in DOMAIN processes
                THEN [callers EXCEPT ![c].h = processes[callers[c].arg],
                                     ![c].pc = next]
                ELSE [callers EXCEPT ![c].pc = "done",
                                     ![c].res = Err(UnknownProcess(callers[c].arg))]
  /\ UNCHANGED << next_id, processes, procs, allocated, env, dropped, logVars, convVars >>

LogsLock(c) == \E process_id \in IdArgs : LookupLock(c, "logs", process_id)

LogsGet(c) == callers[c].op = "logs" /\ Lookup(c, "log_lock")

\* ManagedBackgroundProcess::logs: let log = self.log.lock().await
LogsLogLock(c) ==
  /\ callers[c].op = "logs"
  /\ callers[c].pc = "log_lock"
  /\ procs[callers[c].h].log_lock = Free
  /\ procs' = [procs EXCEPT ![callers[c].h].log_lock = Caller(c)]
  /\ callers' = [callers EXCEPT ![c].pc = "snapshot"]
  /\ UNCHANGED << next_id, processes, map_lock, allocated, env, dropped, logVars, convVars >>

\* ManagedBackgroundProcess::logs: the snapshot with the stream tags rendered
logs(process) ==
  LET entries == snapshot(process.log)
  IN [i \in DOMAIN entries |->
        [stream |-> as_str(entries[i].stream), text |-> entries[i].text]]

\* Ok(process.logs().await), from the lock on: the snapshot, the guard dropped
LogsSnapshot(c) ==
  /\ callers[c].op = "logs"
  /\ callers[c].pc = "snapshot"
  /\ procs' = [procs EXCEPT ![callers[c].h].log_lock = Free]
  /\ callers' = [callers EXCEPT ![c].pc = "done", ![c].h = 0,
                                ![c].res = Ok(logs(procs[callers[c].h]))]
  /\ UNCHANGED << next_id, processes, map_lock, allocated, env, dropped, logVars, convVars >>

KillLock(c) == \E process_id \in IdArgs : LookupLock(c, "kill", process_id)

KillGet(c) == callers[c].op = "kill" /\ Lookup(c, "child_lock")

\* ManagedBackgroundProcess::kill: let mut child = self.child.lock().await
KillChildLock(c) ==
  /\ callers[c].op = "kill"
  /\ callers[c].pc = "child_lock"
  /\ procs[callers[c].h].child_lock = Free
  /\ procs' = [procs EXCEPT ![callers[c].h].child_lock = Caller(c)]
  /\ callers' = [callers EXCEPT ![c].pc = "start_kill"]
  /\ UNCHANGED << next_id, processes, map_lock, allocated, env, dropped, logVars, convVars >>

\* What Child::start_kill can return. A child whose exit was collected by
\* try_wait gets no signal: Ok(()) or ErrorKind::InvalidInput, by the version of
\* the library. Otherwise the OS is asked to send SIGKILL, and the request is
\* made (Ok) or refused (another error kind).
StartKillResults(child, faults) ==
  IF child.reaped THEN {"Ok", "InvalidInput"}
  ELSE IF faults THEN {"Ok", "PermissionDenied"} ELSE {"Ok"}

\* the match without the arm that forgives ErrorKind::InvalidInput
killUnforgiving(start_kill) ==
  IF start_kill = "Ok" THEN Ok(<< >>) ELSE Err(start_kill)

\* ManagedBackgroundProcess::kill: the match on child.start_kill()
kill(start_kill) ==
  CASE start_kill = "Ok" -> Ok(<< >>)
    [] start_kill = "InvalidInput" -> Ok(<< >>)
    [] OTHER -> Err(start_kill)

\* BackgroundProcessManager::kill: .map_err(|err| RespondToModel(err.to_string()))
kill_map_err(result) ==
  IF result[1] = "Ok" THEN result ELSE Err("Operation not permitted")

\* a kill that also aborts the monitor, as the teardown of the handle does
KillStartAbortsMonitor(c) ==
  /\ callers[c].op = "kill"
  /\ callers[c].pc = "start_kill"
  /\ LET h == callers[c].h
     IN \E start_kill \in StartKillResults(procs[h].child, env.faults) :
          /\ procs' = [procs EXCEPT
                         ![h].child_lock = Free,
                         ![h].child.kill_sent =
                            @ \/ (start_kill = "Ok" /\ procs[h].child.alive),
                         ![h].monitor.pc = IF @ \in {"lock", "sleep"} THEN "done" ELSE @]
          /\ callers' = [callers EXCEPT ![c].pc = "done", ![c].h = 0,
                                        ![c].sk = start_kill,
                                        ![c].res = kill_map_err(kill(start_kill))]
  /\ UNCHANGED << next_id, processes, map_lock, allocated, env, dropped, logVars, convVars >>

\* process.kill().await from the lock on: start_kill, the guard dropped
KillStart(c) ==
  /\ callers[c].op = "kill"
  /\ callers[c].pc = "start_kill"
  /\ LET h == callers[c].h
     IN \E start_kill \in StartKillResults(procs[h].child, env.faults) :
          /\ procs' = [procs EXCEPT
                         ![h].child_lock = Free,
                         ![h].child.kill_sent =
                            @ \/ (start_kill = "Ok" /\ procs[h].child.alive)]
          /\ callers' = [callers EXCEPT ![c].pc = "done", ![c].h = 0,
                                        ![c].sk = start_kill,
                                        ![c].res = kill_map_err(kill(start_kill))]
  /\ UNCHANGED << next_id, processes, map_lock, allocated, env, dropped, logVars, convVars >>

\* ------------------------------------------------------- the specification
CallerNext(c) ==
  \/ StartAlloc(c) \/ StartSpawn(c) \/ StartLock(c) \/ StartInsert(c)
  \/ ListLock(c) \/ ListValues(c) \/ ListReadLock(c) \/ ListSummary(c)
  \/ LogsLock(c) \/ LogsGet(c) \/ LogsLogLock(c) \/ LogsSnapshot(c)
  \/ KillLock(c) \/ KillGet(c) \/ KillChildLock(c) \/ KillStart(c)

\* ---------------------------------------- Drop for ManagedBackgroundProcess
\* The manager is dropped when no call borrows it, and with its map goes the
\* only reference to every handle: drop() runs for each handle and calls
\* abort() on its three JoinHandles. abort() asks the runtime to cancel the
\* task and returns; nothing is sent to the child.
TeardownKills ==
  /\ "drop" \in env.ops
  /\ ~dropped
  /\ \A c \in Callers : callers[c].pc \in {"idle", "done"}
  /\ dropped' = TRUE
  /\ procs' = [h \in Handles |->
                [procs[h] EXCEPT !.child.kill_sent = @ \/ procs[h].child.alive]]
  /\ UNCHANGED << next_id, processes, map_lock, callers, allocated, env, logVars, convVars >>

Teardown ==
  /\ "drop" \in env.ops
  /\ ~dropped
  /\ \A c \in Callers : callers[c].pc \in {"idle", "done"}
  /\ dropped' = TRUE
  /\ UNCHANGED << next_id, processes, map_lock, procs, callers, allocated, env, logVars,
                  convVars >>

\* The .await points of spawn_log_task: reader.read(&mut buf).await and
\* log.lock().await.
PumpAwaits == {"read", "lock"}

\* The .await points of spawn_monitor_task: child.lock().await,
\* state.write().await and sleep(WAIT_POLL_INTERVAL).await.
MonitorAwaits == {"lock", "commit", "sleep"}

\* The runtime cancels an aborted task where the task yields to it, at an
\* .await: a task suspended there is not polled again, and a task that was
\* running when abort() was called runs on until it next yields. The future is
\* dropped with what it held: the pump's chunk not yet appended, the monitor's
\* status not yet written.
CancelPump(h, stream) ==
  /\ h \in Handles
  /\ dropped
  /\ procs[h].pump[stream].pc \in PumpAwaits
  /\ procs' = [procs EXCEPT ![h].pump[stream] = [pc |-> "aborted", chunk |-> << >>]]
  /\ UNCHANGED << next_id, processes, map_lock, callers, allocated, env, dropped, logVars, convVars >>

CancelMonitor(h) ==
  /\ h \in Handles
  /\ dropped
  /\ procs[h].monitor.pc \in MonitorAwaits
  /\ procs' = [procs EXCEPT ![h].monitor = [pc |-> "aborted", pending |-> None]]
  /\ UNCHANGED << next_id, processes, map_lock, callers, allocated, env, dropped, logVars, convVars >>

TaskNext(h) ==
  \/ \E stream \in LogStream :
       PumpRead(h, stream) \/ PumpLock(h, stream) \/ PumpAppend(h, stream)
  \/ MonitorLock(h) \/ MonitorPoll(h) \/ MonitorWriteLock(h) \/ MonitorWrite(h)
  \/ MonitorWake(h)

ChildNext(h) == ChildWrite(h) \/ ChildExit(h) \/ ChildDie(h)

\* the steps of the manager's callers, of the tasks and of the children
ManagerNext ==
  \/ \E c \in Callers : CallerNext(c)
  \/ \E h \in 1 .. MaxStarts : TaskNext(h) \/ ChildNext(h)

\* the steps of dropping the manager
DropNext ==
  \/ Teardown
  \/ \E h \in 1 .. MaxStarts :
       \/ \E stream \in LogStream : CancelPump(h, stream)
       \/ CancelMonitor(h)

Next == ManagerNext \/ DropNext

Spec == Init /\ [][Next]_vars

\* ------------------------------------- the specification with fairness
\* One process, sleeping, printing a line or printing more than a read
\* takes, and one caller; system calls that can fail.
OneProcessFair ==
  [starts |-> 1, callers |-> 1, ops |-> Ops, programs |-> {Sleep, EchoHello, Long},
   faults |-> TRUE]

FairInit == New(OneProcessFair)

\* The scheduling the liveness of a process rests on. The OS runs the child: it
\* makes its writes, exits if it is to exit, and dies once it was sent SIGKILL.
\* The runtime runs every spawned task that can go on; a read completes once
\* there are bytes or the stream has ended. tokio's Mutex and RwLock are fair,
\* so a task waiting for a lock that is free again and again gets it. A caller
\* that holds the lock of the child, of the log or of the state goes on to the
\* statement that releases it, with no await in between.
Fairness ==
  /\ \A h \in 1 .. MaxStarts :
       /\ WF_vars(ChildWrite(h))
       /\ WF_vars(ChildExit(h))
       /\ WF_vars(ChildDie(h))
       /\ SF_vars(MonitorLock(h))
       /\ WF_vars(MonitorPoll(h))
       /\ SF_vars(MonitorWriteLock(h))
       /\ WF_vars(MonitorWrite(h))
       /\ WF_vars(MonitorWake(h))
       /\ \A stream \in LogStream :
            /\ WF_vars(/\ h \in Handles
                       /\ procs[h].pipe[stream].buf # << >> \/ ~procs[h].pipe[stream].open
                       /\ PumpRead(h, stream))
            /\ SF_vars(PumpLock(h, stream))
            /\ WF_vars(PumpAppend(h, stream))
  /\ \A c \in Callers :
       /\ WF_vars(KillStart(c))
       /\ WF_vars(LogsSnapshot(c))
       /\ WF_vars(ListSummary(c))

\* The manager under fair scheduling, for as long as it is not dropped: what
\* a process comes to is a matter of the manager that lives to report it.
SpecFair == FairInit /\ [][ManagerNext]_vars /\ Fairness

\* ------------------------------------------- the log specification
\* The chunks handed to append in the log specification: empty, a short line,
\* half the cap, the cap exactly, one byte more than the cap, and invalid bytes
\* whose raw size is under the cap and whose decoded size is over it.
LogChunks ==
  { << >>,
    Bytes(<<104, 105, 10>>),
    << Run(97, LOG_CAP_BYTES \div 2) >>,
    << Run(97, LOG_CAP_BYTES) >>,
    << Run(97, LOG_CAP_BYTES + 1) >>,
    << Run(255, 200000) >>,
    << Run(98, 1), Run(255, READ_BUF_BYTES - 1) >> }

LogInit == New(OneProcess)

\* one call of ProcessLog::append
LogAppend ==
  \E stream \in LogStream, chunk \in LogChunks :
    /\ Len(appended) < MaxAppends
    /\ plog' = append(plog, stream, chunk)
    /\ appended' = IF chunk = << >> THEN appended
                   ELSE Append(appended, [stream |-> stream, chunk |-> chunk])
    /\ UNCHANGED << regVars, snap, convVars >>

\* one call of ManagedBackgroundProcess::logs on the log
LogSnapshot ==
  /\ snap' = Some([at |-> Len(appended), entries |-> logs([log |-> plog])])
  /\ UNCHANGED << regVars, plog, appended, convVars >>

LogNext == LogAppend \/ LogSnapshot

SpecLog == LogInit /\ [][LogNext]_vars

\* ------------------------------------------------ the conversions
\* SystemTime as the OS keeps it: whole seconds since the epoch, negative
\* before it, and the nanoseconds into that second
UNIX_EPOCH == [secs |-> 0, nanos |-> 0]

NANOS_PER_SEC == 1000000000
NANOS_PER_MILLI == 1000000
MILLIS_PER_SEC == 1000

\* SystemTime::duration_since: the Duration from earlier to time, or an error
\* when time is before earlier
duration_since(time, earlier) ==
  IF time.secs > earlier.secs
     \/ (time.secs = earlier.secs /\ time.nanos >= earlier.nanos)
  THEN IF time.nanos >= earlier.nanos
       THEN Ok([secs |-> time.secs - earlier.secs,
                nanos |-> time.nanos - earlier.nanos])
       ELSE Ok([secs |-> time.secs - earlier.secs - 1,
                nanos |-> time.nanos + NANOS_PER_SEC - earlier.nanos])
  ELSE Err("second time provided was later than self")

\* Result::ok
ok(result) == IF result[1] = "Ok" THEN Some(result[2]) ELSE None

\* Duration::as_millis, a u128: u64 seconds times 1000 plus less than 1000
\* stays below 2^74 and cannot wrap
as_millis(dur) == dur.secs * MILLIS_PER_SEC + dur.nanos \div NANOS_PER_MILLI

\* a conversion that turns the error into the default duration
system_time_to_unix_millis_or_default(time) ==
  LET dur == ok(duration_since(time, UNIX_EPOCH))
  IN IF dur = None THEN Some(0) ELSE Some(as_millis(dur[1]))

\* system_time_to_unix_millis
system_time_to_unix_millis(time) ==
  LET dur == ok(duration_since(time, UNIX_EPOCH))
  IN IF dur = None THEN None ELSE Some(as_millis(dur[1]))

\* serde_json::Value: null, a number, a string; an object is a function from
\* its keys to values
JsonNull == [json |-> "null"]
JsonNumber(n) == [json |-> "number", n |-> n]
JsonString(s) == [json |-> "string", s |-> s]

\* Serialize for Option<T> of a number: None is null
JsonOption(opt) == IF opt = None THEN JsonNull ELSE JsonNumber(opt[1])

\* a rendering that writes an absent exit code or signal as 0
background_state_to_json_or_default(state) ==
  CASE state.tag = "Running" -> [status |-> JsonString("running")]
    [] state.tag = "Exited" ->
         [status |-> JsonString("exited"),
          exit_code |-> JsonNumber(IF state.exit_code = None THEN 0
                                   ELSE state.exit_code[1]),
          signal |-> JsonNumber(IF state.signal = None THEN 0 ELSE state.signal[1]),
          finished_at_ms |-> JsonOption(system_time_to_unix_millis(state.finished_at))]
    [] state.tag = "Failed" ->
         [status |-> JsonString("failed"),
          message |-> JsonString(state.message),
          finished_at_ms |-> JsonOption(system_time_to_unix_millis(state.finished_at))]

\* background_state_to_json
background_state_to_json(state) ==
  CASE state.tag = "Running" -> [status |-> JsonString("running")]
    [] state.tag = "Exited" ->
         [status |-> JsonString("exited"),
          exit_code |-> JsonOption(state.exit_code),
          signal |-> JsonOption(state.signal),
          finished_at_ms |-> JsonOption(system_time_to_unix_millis(state.finished_at))]
    [] state.tag = "Failed" ->
         [status |-> JsonString("failed"),
          message |-> JsonString(state.message),
          finished_at_ms |-> JsonOption(system_time_to_unix_millis(state.finished_at))]

\* The timestamps converted: from two seconds before the epoch to MaxSecs
\* seconds after it, at the start of a second, around the first millisecond
\* boundary, 234 ms in, and at the last nanosecond.
SystemTimes ==
  { [secs |-> secs, nanos |-> nanos] :
      secs \in -2 .. MaxSecs,
      nanos \in { 0, 1, NANOS_PER_MILLI - 1, NANOS_PER_MILLI, 234 * NANOS_PER_MILLI,
                  NANOS_PER_SEC - 1 } }

\* The states rendered
ShownStates ==
  { Running }
  \cup { Exited(exit_code, signal, finished_at) :
           exit_code \in { None, Some(0), Some(3), Some(-1) },
           signal \in { None, Some(9) },
           finished_at \in SystemTimes }
  \cup { Failed(message, finished_at) :
           message \in { "boom", "wait failed" }, finished_at \in SystemTimes }

ConvInit == New(OneProcess)

\* one call of system_time_to_unix_millis
ToUnixMillis ==
  /\ \E time \in SystemTimes :
       shown' = Some([fn |-> "system_time_to_unix_millis", arg |-> time,
                      out |-> system_time_to_unix_millis(time)])
  /\ UNCHANGED << regVars, logVars >>

\* one call of background_state_to_json
StateToJson ==
  /\ \E state \in ShownStates :
       shown' = Some([fn |-> "background_state_to_json", arg |-> state,
                      out |-> background_state_to_json(state)])
  /\ UNCHANGED << regVars, logVars >>

ConvNext == ToUnixMillis \/ StateToJson

SpecConv == ConvInit /\ [][ConvNext]_vars

\* ------------------------------------------------------------ the claims
\* the handle that was given the id
HandleOf(process_id) == CHOOSE h \in DOMAIN procs : procs[h].id = process_id

\* the summaries a caller has been given by list so far
HeldSummaries(c) ==
  IF callers[c].op # "list" THEN << >>
  ELSE IF callers[c].pc = "done" THEN callers[c].res[2] ELSE callers[c].acc

\* a summary that shows a terminal state shows the state the cell holds now,
\* which is what every later read returns
ObservedTerminalStays ==
  \A c \in Callers :
    \A i \in DOMAIN HeldSummaries(c) :
      LET s == HeldSummaries(c)[i]
      IN IsTerminal(s.state) => procs[HandleOf(s.id)].state = s.state

\* C1: a process is created Running; its state changes at most once, from
\* Running to Exited or Failed, and a terminal state that was written stays as
\* it is; a terminal state a reader was shown is the state every later read
\* finds, whatever the monitor, kill, the pumps and the readers do in between.
C1_LifecycleChangesOnce ==
  [][ /\ \A h \in DOMAIN procs' :
           h \notin DOMAIN procs => procs'[h].state = Running
      /\ \A h \in DOMAIN procs :
           /\ procs[h].state # Running => procs'[h].state = procs[h].state
           /\ procs'[h].state # procs[h].state => IsTerminal(procs'[h].state)
      /\ ObservedTerminalStays' ]_vars

\* one reader was shown Running and another, later, a terminal state of the
\* same process
C1_Witness ==
  \E c, d \in Callers :
    \E i \in DOMAIN HeldSummaries(c), j \in DOMAIN HeldSummaries(d) :
      /\ HeldSummaries(c)[i].id = HeldSummaries(d)[j].id
      /\ HeldSummaries(c)[i].state = Running
      /\ IsTerminal(HeldSummaries(d)[j].state)

\* the entries of the non-empty appends made so far, as append decodes them
AppendedEntries ==
  [i \in DOMAIN appended |->
     [stream |-> appended[i].stream, text |-> from_utf8_lossy(appended[i].chunk)]]

\* C2: after every append the text lengths of the retained entries sum to at
\* most the cap of 512 KiB, unless the append's own decoded size is over the cap.
C2_RetainedWithinCap ==
  appended # << >> =>
    \/ SumText(plog.entries) <= LOG_CAP_BYTES
    \/ TextLen(AppendedEntries[Len(appended)].text) > LOG_CAP_BYTES

\* an append has evicted older entries and kept the newest ones, which fill
\* the cap to the last byte
C2_Witness ==
  /\ Len(appended) > Len(plog.entries)
  /\ Len(plog.entries) >= 2
  /\ SumText(plog.entries) = LOG_CAP_BYTES

\* s is the end of t
IsSuffix(s, t) ==
  /\ Len(s) <= Len(t)
  /\ s = SubSeq(t, Len(t) - Len(s) + 1, Len(t))

\* C3: the retained entries are a contiguous suffix of the non-empty appends,
\* and after any non-empty append, one over the cap included, the entry just
\* appended is retained in full as the last entry of the log.
C3_NewestIsRetained ==
  /\ IsSuffix(plog.entries, AppendedEntries)
  /\ appended # << >> =>
       /\ plog.entries # << >>
       /\ plog.entries[Len(plog.entries)] = AppendedEntries[Len(appended)]

\* a call that has just returned
Returns(c) == callers[c].pc # "done" /\ callers'[c].pc = "done"

\* C5 as stated: every kill of a registered process returns success
C5_EveryKillSucceeds ==
  \A c \in Callers :
    callers[c].op = "kill" /\ callers[c].pc = "done" =>
      \/ callers[c].res = Ok(<< >>)
      \/ callers[c].res = Err(UnknownProcess(callers[c].arg))

\* C5 (amended): kill returns success whenever start_kill succeeds or reports
\* InvalidInput, which is all a child whose exit was collected can yield: kill of
\* such a process succeeds however often it is repeated and whether or not the
\* monitor has committed the state. kill returns an error only for a request the
\* OS refused with another error kind, on a child whose exit was not collected.
C5_KillForgivesInvalidInput ==
  [][ \A c \in Callers :
        callers[c].pc = "start_kill" /\ Returns(c) =>
          LET child == procs[callers[c].h].child
              res == callers'[c].res
          IN /\ callers'[c].sk \in {"Ok", "InvalidInput"} => res = Ok(<< >>)
             /\ child.reaped => res = Ok(<< >>)
             /\ res # Ok(<< >>) =>
                  /\ res = Err("Operation not permitted")
                  /\ callers'[c].sk = "PermissionDenied"
                  /\ ~child.reaped ]_vars

\* a kill made the child die, the monitor collected the exit, and a second
\* kill of the same process, answered InvalidInput by start_kill, returned success
C5_Witness ==
  \E c, d \in Callers :
    /\ callers[c].op = "kill" /\ callers[c].pc = "done" /\ callers[c].sk = "Ok"
    /\ callers[d].op = "kill" /\ callers[d].pc = "done"
    /\ callers[d].sk = "InvalidInput"
    /\ callers[d].res = Ok(<< >>)
    /\ callers[c].arg = callers[d].arg
    /\ procs[processes[callers[c].arg]].state.tag = "Exited"
    /\ procs[processes[callers[c].arg]].state.signal = Some(9)

\* the ids of the counter values 1, 2, 3, ...
ExpectedIds == << "bg-1", "bg-2", "bg-3", "bg-4", "bg-5", "bg-6" >>

\* C6: every start call, failed or not, takes one value of the counter, which
\* starts at 1: the k-th allocation is "bg-k". The ids are pairwise distinct,
\* also those of start calls running at the same time, they increase from one
\* allocation to the next, and only allocated ids get registered.
C6_OneIdPerStart ==
  /\ Len(allocated) = next_id
  /\ \A k \in DOMAIN allocated : allocated[k] = ExpectedIds[k]
  /\ \A i, j \in DOMAIN allocated : allocated[i] = allocated[j] => i = j
  /\ \A c, d \in Callers :
       callers[c].op = "start" /\ callers[d].op = "start" /\ c # d =>
         callers[c].arg # callers[d].arg
  /\ \A c \in Callers :
       callers[c].op = "start" => \E k \in DOMAIN allocated : allocated[k] = callers[c].arg
  /\ \A id \in DOMAIN processes : \E k \in DOMAIN allocated : allocated[k] = id

\* a start that failed used up "bg-1", and the start after it returned "bg-2"
C6_Witness ==
  \E c, d \in Callers :
    /\ callers[c].op = "start" /\ callers[c].pc = "done"
    /\ callers[c].arg = "bg-1" /\ callers[c].res[1] = "Err"
    /\ callers[d].op = "start" /\ callers[d].pc = "done"
    /\ callers[d].res = Ok("bg-2")
    /\ DOMAIN processes = {"bg-2"}

\* a start that returned an error has left nothing: no entry under its id and
\* no handle, hence no pump and no monitor, made for it
FailedStartLeftNothing ==
  \A c \in Callers :
    callers[c].op = "start" /\ callers[c].pc = "done" /\ callers[c].res[1] = "Err" =>
      /\ callers[c].arg \notin DOMAIN processes
      /\ \A h \in DOMAIN procs : procs[h].id # callers[c].arg

\* C7: a start returns an error only from the spawn and the capture of the
\* pipes, before any task is spawned; the step that fails changes neither the
\* map nor the handles and tasks, and nothing is ever registered or run under
\* the id of the failed call.
C7_FailedStartRegistersNothing ==
  [][ /\ \A c \in Callers :
           callers[c].op = "start" /\ Returns(c) /\ callers'[c].res[1] = "Err" =>
             /\ callers[c].pc = "spawn"
             /\ processes' = processes
             /\ procs' = procs
             /\ map_lock' = map_lock
      /\ FailedStartLeftNothing' ]_vars

\* a start failed for want of stderr after another start had registered a
\* process: the map still holds that process only
C7_Witness ==
  \E c \in Callers :
    /\ callers[c].op = "start" /\ callers[c].pc = "done"
    /\ callers[c].res = Err("failed to capture stderr")
    /\ callers[c].arg = "bg-2"
    /\ DOMAIN processes = {"bg-1"}
    /\ Len(procs) = 1

\* C8: logs and kill of an id that is not registered return the error "unknown
\* background process: <id>"; the lookup changes neither the map nor any
\* process (its log, its state, its child: no termination request), and it
\* leaves the map lock free and the caller able to make its next call.
C8_UnknownIdIsNotFound ==
  [][ \A c \in Callers :
        /\ callers[c].pc = "get"
        /\ callers'[c] # callers[c]
        /\ callers[c].arg \notin DOMAIN processes
        => /\ callers'[c].pc = "done"
           /\ callers'[c].op = callers[c].op
           /\ callers'[c].res = Err("unknown background process: " \o callers[c].arg)
           /\ callers[c].arg = "nonexistent-id" =>
                callers'[c].res = Err("unknown background process: nonexistent-id")
           /\ processes' = processes
           /\ procs' = procs
           /\ map_lock' = Free ]_vars

\* logs and kill of "nonexistent-id" were both answered not-found while a
\* process was registered and running
C8_Witness ==
  \E c, d \in Callers :
    /\ callers[c].op = "logs" /\ callers[c].pc = "done"
    /\ callers[c].res = Err("unknown background process: nonexistent-id")
    /\ callers[d].op = "kill" /\ callers[d].pc = "done"
    /\ callers[d].res = Err("unknown background process: nonexistent-id")
    /\ DOMAIN processes = {"bg-1"}
    /\ procs[processes["bg-1"]].child.alive
    /\ ~procs[processes["bg-1"]].child.kill_sent

\* a list that has returned holds exactly one summary for every id that start
\* had returned when the list was called
ListHoldsTheKnown ==
  \A c \in Callers :
    callers[c].op = "list" /\ callers[c].pc = "done" =>
      LET summaries == callers[c].res[2]
      IN \A id \in callers[c].known :
           Cardinality({ i \in DOMAIN summaries : summaries[i].id = id }) = 1

\* C9: an id that start has returned stays in the map, with its handle, for
\* good: a start returns its id only once it is in the map, no step removes or
\* replaces an entry, logs and kill of a registered id find its handle, and
\* every list called after the start returned holds exactly one summary of it.
C9_RegisteredForGood ==
  [][ /\ \A id \in DOMAIN processes :
           id \in DOMAIN processes' /\ processes'[id] = processes[id]
      /\ \A c \in Callers :
           callers[c].op = "start" /\ Returns(c) /\ callers'[c].res[1] = "Ok" =>
             /\ callers'[c].res = Ok(callers[c].arg)
             /\ callers[c].arg \in DOMAIN processes'
             /\ procs[processes'[callers[c].arg]].id = callers[c].arg
      /\ \A c \in Callers :
           /\ callers[c].pc = "get"
           /\ callers'[c] # callers[c]
           /\ callers[c].arg \in DOMAIN processes
           => /\ callers'[c].pc # "done"
              /\ callers'[c].h = processes[callers[c].arg]
      /\ ListHoldsTheKnown' ]_vars

\* with two processes started and one of them killed and found terminal, a
\* list holds both
C9_Witness ==
  \E c \in Callers :
    /\ callers[c].op = "list" /\ callers[c].pc = "done"
    /\ callers[c].known = {"bg-1", "bg-2"}
    /\ Len(callers[c].res[2]) = 2
    /\ \E i \in DOMAIN callers[c].res[2] : IsTerminal(callers[c].res[2][i].state)

\* a kill of the process returned success and the process is registered
KillReturnedOk(process_id) ==
  /\ process_id \in DOMAIN processes
  /\ \E c \in Callers :
       /\ callers[c].op = "kill" /\ callers[c].pc = "done"
       /\ callers[c].arg = process_id
       /\ callers[c].res = Ok(<< >>)

\* the state of the registered process is Exited or Failed
TerminalState(process_id) ==
  /\ process_id \in DOMAIN processes
  /\ IsTerminal(procs[processes[process_id]].state)

\* C4: the step in which kill makes its termination request leaves the monitor
\* and the pumps of the process as they are; and once kill of a registered
\* process has returned success, with the OS ending the child it signalled and
\* the monitor scheduled fairly, the state of the process becomes terminal.
C4_KilledBecomesTerminal ==
  /\ [][ \A c \in Callers :
           callers[c].pc = "start_kill" /\ Returns(c) =>
             /\ procs'[callers[c].h].monitor = procs[callers[c].h].monitor
             /\ procs'[callers[c].h].pump = procs[callers[c].h].pump
             /\ procs'[callers[c].h].state = procs[callers[c].h].state ]_vars
  /\ \A k \in 1 .. MaxStarts :
       KillReturnedOk(ProcessId(k)) ~> TerminalState(ProcessId(k))

\* the sleeping child was killed while Running, and the monitor has committed
\* Exited with signal 9 and no exit code
C4_Witness ==
  /\ KillReturnedOk("bg-1")
  /\ procs[1].command_for_display = "sleep 1000"
  /\ procs[1].monitor.pc = "done"
  /\ procs[1].state.tag = "Exited"
  /\ procs[1].state.exit_code = None
  /\ procs[1].state.signal = Some(9)

\* the program the handle runs
ProgramOf(h) ==
  CHOOSE prog \in Programs \cup {Flood} : prog.command = procs[h].command_for_display

RECURSIVE Written(_, _)
\* the bytes a script writes to a stream, in order
Written(script, stream) ==
  IF script = << >> THEN << >>
  ELSE (IF Head(script).stream = stream THEN Head(script).bytes ELSE << >>)
       \o Written(Tail(script), stream)

RECURSIVE TextOf(_, _)
\* the texts of the entries of a stream, in order
TextOf(entries, stream) ==
  IF entries = << >> THEN << >>
  ELSE IF Len(entries) = 1
       THEN IF entries[1].stream = stream THEN entries[1].text ELSE << >>
  ELSE LET half == Len(entries) \div 2
       IN TextOf(SubSeq(entries, 1, half), stream)
          \o TextOf(SubSeq(entries, half + 1, Len(entries)), stream)

RECURSIVE Normal(_)
\* a text with its adjacent runs of the same character made one
Normal(text) ==
  IF Len(text) < 2 THEN text
  ELSE LET half == Len(text) \div 2
           a == Normal(SubSeq(text, 1, half))
           b == Normal(SubSeq(text, half + 1, Len(text)))
       IN IF a[Len(a)].c = b[1].c
          THEN SubSeq(a, 1, Len(a) - 1)
               \o << [c |-> b[1].c, n |-> a[Len(a)].n + b[1].n] >>
               \o Tail(b)
          ELSE a \o b

\* the child exited by itself: with its exit code, by no signal
ExitedByItself(h) ==
  /\ ~procs[h].child.alive
  /\ procs[h].child.status = Some([code |-> ProgramOf(h).exit, signal |-> None])

\* the stdout pump has ended with nothing of the child's output left unread
StdoutDrained(h) ==
  /\ ExitedByItself(h)
  /\ procs[h].pump["Stdout"].pc = "done"
  /\ procs[h].pipe["Stdout"].buf = << >>

C11_SnapshotHoldsTheAppends ==
  snap # None =>
    LET n == snap[1].at
        first == SubSeq(AppendedEntries, 1, n)
    IN SumText(first) <= LOG_CAP_BYTES =>
         snap[1].entries =
           [i \in 1 .. n |->
              [stream |-> IF first[i].stream = "Stdout" THEN "stdout" ELSE "stderr",
               text |-> first[i].text]]

\* a snapshot of a stdout entry followed by a stderr entry, taken before an
\* append that evicted both of them from the log
C11_Witness ==
  /\ snap # None
  /\ snap[1].at = 2
  /\ Len(snap[1].entries) = 2
  /\ snap[1].entries[1].stream = "stdout"
  /\ snap[1].entries[2].stream = "stderr"
  /\ Len(appended) = 3
  /\ Len(plog.entries) = 1

\* C12: system_time_to_unix_millis gives a timestamp at or after the epoch its
\* whole milliseconds since the epoch, never negative (the epoch: 0; the epoch
\* and 1234 ms: 1234), and gives a timestamp before the epoch no value.
C12_WholeMillisOrNothing ==
  shown # None /\ shown[1].fn = "system_time_to_unix_millis" =>
    LET time == shown[1].arg
        out == shown[1].out
    IN /\ time.secs < 0 => out = None
       /\ time.secs >= 0 =>
            /\ out # None
            /\ out[1] >= 0
            /\ out[1] \div 1000 = time.secs
            /\ (out[1] % 1000) * 1000000 <= time.nanos
            /\ time.nanos < ((out[1] % 1000) + 1) * 1000000
       /\ time = [secs |-> 0, nanos |-> 0] => out = Some(0)
       /\ time = [secs |-> 1, nanos |-> 234000000] => out = Some(1234)

\* the conversion of the last nanosecond before the epoch: no value
C12_Witness ==
  /\ shown # None
  /\ shown[1].fn = "system_time_to_unix_millis"
  /\ shown[1].arg = [secs |-> -1, nanos |-> 999999999]
  /\ shown[1].out = None

\* C13: background_state_to_json renders Running as the object with the one key
\* status = "running"; Exited as status = "exited" with exit_code and signal
\* (null when absent) and finished_at_ms; Failed as status = "failed" with
\* message and finished_at_ms; finished_at_ms is the state's finished_at in
\* milliseconds since the epoch, null before the epoch.
C13_JsonMatchesTheVariant ==
  shown # None /\ shown[1].fn = "background_state_to_json" =>
    LET state == shown[1].arg
        out == shown[1].out
        ms == IF state.finished_at.secs < 0 THEN [json |-> "null"]
              ELSE [json |-> "number",
                    n |-> state.finished_at.secs * 1000
                            + state.finished_at.nanos \div 1000000]
    IN /\ out.status.s \in { "running", "exited", "failed" }
       /\ state.tag = "Running" => out = [status |-> [json |-> "string", s |-> "running"]]
       /\ state.tag = "Exited" =>
            /\ DOMAIN out = { "status", "exit_code", "signal", "finished_at_ms" }
            /\ out.status = [json |-> "string", s |-> "exited"]
            /\ out.exit_code = IF state.exit_code = None THEN [json |-> "null"]
                               ELSE [json |-> "number", n |-> state.exit_code[1]]
            /\ out.signal = IF state.signal = None THEN [json |-> "null"]
                            ELSE [json |-> "number", n |-> state.signal[1]]
            /\ out.finished_at_ms = ms
       /\ state.tag = "Failed" =>
            /\ DOMAIN out = { "status", "message", "finished_at_ms" }
            /\ out.status = [json |-> "string", s |-> "failed"]
            /\ out.message = [json |-> "string", s |-> state.message]
            /\ out.finished_at_ms = ms
       /\ state = Exited(Some(0), None, [secs |-> 42, nanos |-> 0]) =>
            out = [status |-> [json |-> "string", s |-> "exited"],
                   exit_code |-> [json |-> "number", n |-> 0],
                   signal |-> [json |-> "null"],
                   finished_at_ms |-> [json |-> "number", n |-> 42000]]
       /\ state = Failed("boom", [secs |-> 5, nanos |-> 0]) =>
            out = [status |-> [json |-> "string", s |-> "failed"],
                   message |-> [json |-> "string", s |-> "boom"],
                   finished_at_ms |-> [json |-> "number", n |-> 5000]]

\* the rendering of a child killed by signal 9 before the epoch: no exit code,
\* signal 9, no finished_at_ms
C13_Witness ==
  /\ shown # None
  /\ shown[1].fn = "background_state_to_json"
  /\ shown[1].arg.tag = "Exited"
  /\ shown[1].arg.exit_code = None
  /\ shown[1].arg.signal = Some(9)
  /\ shown[1].out.exit_code = [json |-> "null"]
  /\ shown[1].out.signal = [json |-> "number", n |-> 9]
  /\ shown[1].out.finished_at_ms = [json |-> "null"]

\* C14: the lifecycle state of a process changes only in the monitor's write,
\* and its log only in an append of one of its two pumps. No step of a caller
\* (list with its summaries, logs, kill, start) changes the state or the log of
\* any process; the step of kill that makes the termination request changes
\* nothing of the process but the child and the child lock; and no step of a
\* pump, the end on a read error included, changes the state.
C14_OnlyMonitorAndPumpsWrite ==
  [][ \A h \in DOMAIN procs :
        /\ procs'[h].state # procs[h].state =>
             /\ procs[h].monitor.pc = "write"
             /\ procs'[h].monitor.pc = "done"
             /\ callers' = callers
             /\ procs'[h].pump = procs[h].pump
        /\ procs'[h].log # procs[h].log =>
             /\ \E stream \in LogStream :
                  /\ procs[h].pump[stream].pc = "append"
                  /\ procs'[h].pump[stream].pc = "read"
                  /\ procs[h].log_lock = <<"pump", stream>>
             /\ callers' = callers
             /\ procs'[h].monitor = procs[h].monitor
        /\ callers' # callers =>
             /\ procs'[h].state = procs[h].state
             /\ procs'[h].log = procs[h].log
        /\ procs'[h].pump # procs[h].pump => procs'[h].state = procs[h].state
        /\ \A c \in Callers :
             callers[c].pc = "start_kill" /\ Returns(c) /\ callers[c].h = h =>
               \E sent \in BOOLEAN :
                 procs'[h] = [procs[h] EXCEPT !.child_lock = << >>,
                                              !.child.kill_sent = sent] ]_vars

\* the stdout pump ended on a read error after its first append, the child
\* still running: the state is Running, and a kill that followed has asked for
\* the termination and left state and log as they were
C14_Witness ==
  \E h \in DOMAIN procs, c \in Callers :
    /\ procs[h].pump["Stdout"].pc = "done"
    /\ procs[h].pipe["Stdout"].open
    /\ procs[h].log.entries # << >>
    /\ procs[h].state = Running
    /\ procs[h].child.kill_sent
    /\ callers[c].op = "kill" /\ callers[c].pc = "done" /\ callers[c].res = Ok(<< >>)

\* the caller holds a lock of the process: its child lock, its log lock or a
\* read guard of its state
HoldsLockOf(c, h) ==
  \/ procs[h].child_lock = <<"caller", c>>
  \/ procs[h].log_lock = <<"caller", c>>
  \/ c \in procs[h].state_lock.readers

\* the caller is at the await of a lock of a process
AwaitsProcessLock(c) == callers[c].pc \in { "state_read", "log_lock", "child_lock" }

\* C15: only callers take the map lock, and the caller that holds it is cloning
\* the handles (list), cloning the one handle (logs, kill) or making the final
\* insert (start): it holds no lock of any process and awaits none. So a call
\* that awaits or holds a lock of a process does not hold the map lock, and
\* the calls on other processes and the starts are not kept waiting by it.
C15_MapLockHeldAlone ==
  /\ map_lock = << >> \/ \E c \in Callers : map_lock = <<"caller", c>>
  /\ \A c \in Callers :
       /\ map_lock = <<"caller", c>> =>
            /\ \A h \in DOMAIN procs : ~HoldsLockOf(c, h)
            /\ ~AwaitsProcessLock(c)
            /\ callers[c].op = "list" => callers[c].pc = "values"
            /\ callers[c].op \in {"logs", "kill"} => callers[c].pc = "get"
            /\ callers[c].op = "start" => callers[c].pc = "inserting"
       /\ (AwaitsProcessLock(c) \/ \E h \in DOMAIN procs : HoldsLockOf(c, h)) =>
            map_lock # <<"caller", c>>

\* a list holds the read guard of the state of one process while a concurrent
\* start holds the map lock for the insert of another
C15_Witness ==
  \E c, d \in Callers :
    /\ callers[c].op = "list"
    /\ \E h \in DOMAIN procs : c \in procs[h].state_lock.readers
    /\ callers[d].op = "start" /\ callers[d].pc = "inserting"
    /\ map_lock = <<"caller", d>>
    /\ callers[d].arg = "bg-2"

\* C16: the monitor holds the child lock only from its lock().await to the end
\* of the one try_wait: not while it sleeps, not while it awaits or holds the
\* write guard of the state. A kill that holds the child lock holds no other
\* lock. While the monitor sleeps the child lock is not the monitor's, so a
\* kill that awaits it waits for other kills at most.
C16_ChildLockHeldForOnePoll ==
  \A h \in DOMAIN procs :
    /\ procs[h].child_lock = <<"monitor">> <=> procs[h].monitor.pc = "poll"
    /\ procs[h].state_lock.writer =>
         /\ procs[h].monitor.pc = "write"
         /\ procs[h].child_lock # <<"monitor">>
    /\ \A c \in Callers :
         procs[h].child_lock = <<"caller", c>> =>
           /\ callers[c].op = "kill" /\ callers[c].pc = "start_kill" /\ callers[c].h = h
           /\ map_lock # <<"caller", c>>
           /\ \A g \in DOMAIN procs :
                /\ procs[g].log_lock # <<"caller", c>>
                /\ c \notin procs[g].state_lock.readers
                /\ g # h => procs[g].child_lock # <<"caller", c>>
    /\ \A c \in Callers :
         /\ callers[c].op = "kill" /\ callers[c].pc = "child_lock" /\ callers[c].h = h
         /\ procs[h].monitor.pc \in { "sleep", "commit", "write" }
         => \/ procs[h].child_lock = << >>
            \/ \E d \in Callers \ {c} : procs[h].child_lock = <<"caller", d>>

\* a kill holds the child lock while the monitor, which has collected the
\* exit, holds the write guard of the state
C16_Witness ==
  \E h \in DOMAIN procs, c \in Callers :
    /\ procs[h].child_lock = <<"caller", c>>
    /\ procs[h].state_lock.writer
    /\ procs[h].child.reaped

\* the text a is a piece of the text b, both with their runs made one: b
\* holds the characters of a, one after the other, from some place on
IsFactor(a, b) ==
  \/ a = << >>
  \/ \E j \in 1 .. Len(b) - Len(a) + 1 :
       \A i \in 1 .. Len(a) :
         /\ a[i].c = b[j + i - 1].c
         /\ IF 1 < i /\ i < Len(a) THEN a[i].n = b[j + i - 1].n
            ELSE a[i].n <= b[j + i - 1].n

\* what the child of the handle writes to the stream, decoded
WrittenText(h, stream) == Normal(from_utf8_lossy(Written(ProgramOf(h).script, stream)))

\* the entries of a result of logs() as log entries
Unrendered(result) ==
  [i \in DOMAIN result |->
     [stream |-> IF result[i].stream = "stdout" THEN "Stdout" ELSE "Stderr",
      text |-> result[i].text]]

\* C17: a pump takes its chunks from the front of the pipe and every append
\* puts the new entry behind the entries retained, which keep their order, so
\* the entries of one stream stand in the log, and in every snapshot, in the
\* order in which they were read: their texts in a row are a piece of what the
\* child wrote to that stream, also after evictions, and whatever the
\* interleaving with the other stream.
C17_StreamOrderIsKept ==
  /\ [](\A h \in DOMAIN procs : \A stream \in LogStream :
          IsFactor(Normal(TextOf(procs[h].log.entries, stream)), WrittenText(h, stream)))
  /\ [](\A c \in Callers :
          callers[c].op = "logs" /\ callers[c].pc = "done" /\ callers[c].res[1] = "Ok" =>
            \A stream \in LogStream :
              IsFactor(Normal(TextOf(Unrendered(callers[c].res[2]), stream)),
                       WrittenText(processes[callers[c].arg], stream)))
  /\ [][ \A h \in DOMAIN procs : \A stream \in LogStream :
           /\ procs[h].pump[stream].pc = "read" /\ procs'[h].pump[stream].pc = "lock" =>
                Normal(from_utf8_lossy(procs'[h].pump[stream].chunk
                                       \o procs'[h].pipe[stream].buf))
                  = Normal(from_utf8_lossy(procs[h].pipe[stream].buf))
           /\ procs[h].pump[stream].pc = "append" /\ procs'[h].pump[stream].pc = "read" =>
                IsSuffix(procs'[h].log.entries,
                         Append(procs[h].log.entries,
                                [stream |-> stream,
                                 text |-> from_utf8_lossy(procs[h].pump[stream].chunk)])) ]_vars

\* the stderr entry stands between the two stdout entries of the same child,
\* whose first 4096 bytes come before its last byte
C17_Witness ==
  \E h \in DOMAIN procs :
    /\ Len(procs[h].log.entries) = 3
    /\ procs[h].log.entries[1] = [stream |-> "Stdout", text |-> << [c |-> 97, n |-> 4096] >>]
    /\ procs[h].log.entries[2].stream = "Stderr"
    /\ procs[h].log.entries[3] = [stream |-> "Stdout", text |-> << [c |-> 98, n |-> 1] >>]

\* C20: a chunk a pump appends is one read of 1 to 4096 bytes, at most 12288
\* bytes decoded, less than the cap. In the log of a process, which only its
\* pumps append to, total_bytes is the sum of the text lengths of the entries
\* retained and at most the cap, and after every append of a pump the entry
\* just appended is the last one retained: the append never empties the log.
C20_PumpAppendsAreRetained ==
  /\ [](\A h \in DOMAIN procs :
          /\ procs[h].log.total_bytes = SumText(procs[h].log.entries)
          /\ procs[h].log.total_bytes <= 512 * 1024
          /\ \A stream \in LogStream :
               procs[h].pump[stream].pc \in { "lock", "append" } =>
                 LET chunk == procs[h].pump[stream].chunk
                 IN /\ 1 <= RawLen(chunk) /\ RawLen(chunk) <= 4096
                    /\ TextLen(from_utf8_lossy(chunk)) <= 3 * RawLen(chunk)
                    /\ TextLen(from_utf8_lossy(chunk)) <= 12288)
  /\ [][ \A h \in DOMAIN procs : \A stream \in LogStream :
           procs[h].pump[stream].pc = "append" /\ procs'[h].pump[stream].pc = "read" =>
             /\ procs'[h].log.entries # << >>
             /\ procs'[h].log.entries[Len(procs'[h].log.entries)]
                  = [stream |-> stream,
                     text |-> from_utf8_lossy(procs[h].pump[stream].chunk)] ]_vars

\* the log of the flooding child after its last append: the two oldest entries
\* evicted, 128 entries that fill the cap exactly, the last read's entry last
C20_Witness ==
  \E h \in DOMAIN procs :
    /\ procs[h].command_for_display = "flood"
    /\ procs[h].pump["Stdout"].pc = "done"
    /\ Len(procs[h].log.entries) = 128
    /\ procs[h].log.total_bytes = 512 * 1024
    /\ procs[h].log.entries[1].text = << [c |-> 98, n |-> 4096] >>
    /\ procs[h].log.entries[128].text = << [c |-> 99, n |-> 4096] >>

\* the step in which the manager, and every handle with it, is dropped
IsTeardown == ~dropped /\ dropped'

\* the monitor's wait poll: child.try_wait()
PollsChild(h) == procs[h].monitor.pc = "poll" /\ procs'[h].monitor.pc # "poll"

\* the task has come to its end: it returned, or the runtime cancelled it
Stopped(task) == task.pc \in {"done", "aborted"}

C19_TerminalStateDoesNotCloseTheLog ==
  /\ [](\A h \in DOMAIN procs :
          /\ procs[h].monitor.pc = "poll" => ENABLED MonitorPoll(h)
          /\ /\ procs[h].monitor.pc = "commit"
             /\ ~procs[h].state_lock.writer
             /\ procs[h].state_lock.readers = {}
             => ENABLED MonitorWriteLock(h)
          /\ procs[h].monitor.pc = "write" => ENABLED MonitorWrite(h))
  /\ [][ \A h \in DOMAIN procs : \A stream \in LogStream :
           /\ procs[h].pump[stream].pc = "append"
           /\ procs'[h].pump[stream].pc = "read"
           /\ IsTerminal(procs[h].state)
           => /\ procs'[h].state = procs[h].state
              /\ procs'[h].log.entries # << >>
              /\ procs'[h].log.entries[Len(procs'[h].log.entries)].stream = stream
              /\ procs'[h].log # procs[h].log
              /\ callers' = callers ]_vars

\* a list has returned the terminal state of the process; a logs call made
\* after it is about to take its snapshot of the still empty log; and the
\* stdout pump waits for the log lock with the child's output in hand
C19_Witness ==
  \E h \in DOMAIN procs, c, d \in Callers :
    /\ callers[c].op = "list" /\ callers[c].pc = "done"
    /\ Len(callers[c].res[2]) = 1
    /\ callers[c].res[2][1].id = procs[h].id
    /\ IsTerminal(callers[c].res[2][1].state)
    /\ callers[d].op = "logs" /\ callers[d].pc = "snapshot" /\ callers[d].h = h
    /\ procs[h].log.entries = << >>
    /\ procs[h].pump["Stdout"].pc = "lock"
    /\ procs[h].pump["Stdout"].chunk # << >>

====
